---- MODULE Spec2Model ----
(***************************************************************************)
(* TinyFloat: an 8-bit float (1 sign bit, 4 exponent bits, 3 mantissa      *)
(* bits, exponent bias -2), its import (encode) and valueOf (decode)       *)
(* routines, the instance cache and the rotating NaN counter.              *)
(*                                                                         *)
(* Host numbers are records [kind, neg, mag, frac]: kind is "nan", "inf"   *)
(* or "fin"; neg is the sign (so -0 is a finite number with neg = TRUE and *)
(* mag = 0); mag is the integer part of the magnitude; frac tells whether  *)
(* the magnitude has a non-zero fractional part.  Math.log2 is taken to be *)
(* exact on the integers the import routine hands to it.                   *)
(***************************************************************************)
EXTENDS Integers, Sequences, FiniteSets, TLC

VARIABLES lastNaNValue, INSTANCE_CACHE, heap, COMMON_VALUES, call, nanLog,
          returned, probe

vars == <<lastNaNValue, INSTANCE_CACHE, heap, COMMON_VALUES, call, nanLog,
          returned, probe>>

(* ------------------------------ bounds --------------------------------- *)

\* number of most recent NaN constructions remembered in nanLog
NaNWindow == 15

\* the codec is probed on every integer magnitude up to here, densely
DenseMax == 300

\* magnitudes probed above the saturation threshold
OverShoot == 2

(* --------------------------- host numbers ------------------------------ *)

Num(kind, neg, mag, frac) == [kind |-> kind, neg |-> neg, mag |-> mag, frac |-> frac]

NaN == Num("nan", FALSE, 0, FALSE)

Infinity(neg) == Num("inf", neg, 0, FALSE)

Int2Num(i) == IF i < 0 THEN Num("fin", TRUE, -i, FALSE) ELSE Num("fin", FALSE, i, FALSE)

NegZero == Num("fin", TRUE, 0, FALSE)

\* value > 0
GreaterThanZero(v) ==
    \/ v.kind = "inf" /\ ~v.neg
    \/ v.kind = "fin" /\ ~v.neg /\ (v.mag > 0 \/ v.frac)

\* value === 0 (true of 0 and of -0)
StrictEqualsZero(v) == v.kind = "fin" /\ v.mag = 0 /\ ~v.frac

MathFloor(v) ==
    IF v.kind # "fin" \/ ~v.frac THEN v
    ELSE IF v.neg THEN Num("fin", TRUE, v.mag + 1, FALSE)
    ELSE Num("fin", FALSE, v.mag, FALSE)

MathCeil(v) ==
    IF v.kind # "fin" \/ ~v.frac THEN v
    ELSE IF v.neg THEN Num("fin", TRUE, v.mag, FALSE)
    ELSE Num("fin", FALSE, v.mag + 1, FALSE)

MathAbs(v) == [v EXCEPT !.neg = FALSE]

Negate(v) == IF v.kind = "nan" THEN v ELSE [v EXCEPT !.neg = ~v.neg]

\* x > n for an integer n >= 0
GreaterThan(v, n) ==
    \/ v.kind = "inf" /\ ~v.neg
    \/ v.kind = "fin" /\ ~v.neg /\ (v.mag > n \/ (v.mag = n /\ v.frac))

\* x < n for an integer n > 0
LessThan(v, n) ==
    \/ v.kind = "inf" /\ v.neg
    \/ v.kind = "fin" /\ (v.neg \/ v.mag < n)

\* the global isNaN
GlobalIsNaN(v) == v.kind = "nan"

\* x == y on two numbers: NaN equals nothing, 0 equals -0
LooseEquals(x, y) ==
    /\ x.kind # "nan" /\ y.kind # "nan"
    /\ x.kind = y.kind
    /\ \/ x.kind = "inf" /\ x.neg = y.neg
       \/ x.kind = "fin" /\ x.mag = y.mag /\ x.frac = y.frac
                         /\ (x.neg = y.neg \/ (x.mag = 0 /\ ~x.frac))

\* 2 ** e for an integer e >= 0
RECURSIVE Pow2(_)
Pow2(e) == IF e <= 0 THEN 1 ELSE 2 * Pow2(e - 1)

\* 2 ** e for an integer e >= -3, counted in eighths
Pow2Eighths(e) == Pow2(e + 3)

\* the number that is v8 eighths, with the sign neg
FromEighths(v8, neg) == Num("fin", neg, v8 \div 8, v8 % 8 # 0)

\* Math.floor(Math.log2(n)) for an integer n >= 1
RECURSIVE FloorLog2(_)
FloorLog2(n) == IF n < 2 THEN 0 ELSE 1 + FloorLog2(n \div 2)

Max(a, b) == IF a >= b THEN a ELSE b

(* ------------------------------ layout --------------------------------- *)

EXPONENT_BIAS == -2

\* (value & BIT_MASKS.SIGN) >> 7
SignOf(b) == (b \div 128) % 2

\* (value & BIT_MASKS.EXPONENT) >> 3
ExponentOf(b) == (b \div 8) % 16

\* value & BIT_MASKS.MANTISSA
MantissaOf(b) == b % 8

Bytes == 0..255

NaNBytes == {b \in Bytes : ExponentOf(b) = 15 /\ MantissaOf(b) # 0}

(* --------------------- import (encode): importValue -------------------- *)

\* the allocation step without its second advance
NextNaNValueNoSkip(last) == (last + 1) % 16

\* the rotating NaN counter: one allocation step
NextNaNValue(last) ==
    LET advanced == (last + 1) % 16
    IN  IF MantissaOf(advanced) = 0 THEN (advanced + 1) % 16 ELSE advanced

\* value > 0 ? Math.floor(value) : Math.ceil(value)
IntegralValue(value) ==
    IF GreaterThanZero(value) THEN MathFloor(value) ELSE MathCeil(value)

\* integralValue > 0 ? 0 : (1 << 7)
ImportSign(integralValue) == IF GreaterThanZero(integralValue) THEN 0 ELSE 128

\* the branch for infinities: sign | exponent
ImportInfinity(integralValue) == ImportSign(integralValue) + 15 * 8

\* the branch for NaN, given the counter after its allocation step
ImportNaN(last) == (last \div 8) * 128 + 15 * 8 + MantissaOf(last)

\* the branch for subnormal numbers: sign | mantissa
ImportSubnormal(integralValue) == ImportSign(integralValue) + MathAbs(integralValue).mag

\* the greedy tests without the subtraction after a bit is set
ImportMantissaNoSubtract(remainder, rawExponent) ==
    LET m4 == IF remainder >= Pow2(rawExponent - 1) THEN 4 ELSE 0
        m2 == IF remainder >= Pow2(rawExponent - 2) THEN 2 ELSE 0
        m1 == IF remainder >= Pow2(rawExponent - 3) THEN 1 ELSE 0
    IN  m4 + m2 + m1

\* the greedy tests with > for >=
ImportMantissaStrict(remainder, rawExponent) ==
    LET m4 == IF remainder > Pow2(rawExponent - 1) THEN 4 ELSE 0
        r4 == IF m4 = 4 THEN remainder - Pow2(rawExponent - 1) ELSE remainder
        m2 == IF r4 > Pow2(rawExponent - 2) THEN 2 ELSE 0
        r2 == IF m2 = 2 THEN r4 - Pow2(rawExponent - 2) ELSE r4
        m1 == IF r2 > Pow2(rawExponent - 3) THEN 1 ELSE 0
    IN  m4 + m2 + m1

\* the three greedy tests of the remainder against descending powers of two
ImportMantissa(remainder, rawExponent) ==
    LET m4 == IF remainder >= Pow2(rawExponent - 1) THEN 4 ELSE 0
        r4 == IF m4 = 4 THEN remainder - Pow2(rawExponent - 1) ELSE remainder
        m2 == IF r4 >= Pow2(rawExponent - 2) THEN 2 ELSE 0
        r2 == IF m2 = 2 THEN r4 - Pow2(rawExponent - 2) ELSE r4
        m1 == IF r2 >= Pow2(rawExponent - 3) THEN 1 ELSE 0
    IN  m4 + m2 + m1

\* the branch for normalized numbers: sign | exponent | mantissa
ImportNormalized(integralValue) ==
    LET magnitude   == MathAbs(integralValue).mag
        rawExponent == FloorLog2(magnitude)
        exponent    == Max(rawExponent + EXPONENT_BIAS, 0) * 8
        remainder   == magnitude - Pow2(rawExponent)
    IN  ImportSign(integralValue) + exponent + ImportMantissa(remainder, rawExponent)

\* the saturation threshold of the import
MaxMagnitude == 122880

\* the saturation test with >= for >
SaturatesAtThreshold(integralValue) ==
    ~LessThan(MathAbs(integralValue), MaxMagnitude) /\ integralValue.kind # "nan"

\* Math.abs(integralValue) > 122880
Saturates(integralValue) == GreaterThan(MathAbs(integralValue), MaxMagnitude)

\* the NaN branch keeping its counter to itself
AllocateNaNLocally(last) ==
    [byte |-> ImportNaN(NextNaNValue(last)), last |-> last]

\* the NaN branch: advance the counter and build the byte from it
AllocateNaN(last) ==
    [byte |-> ImportNaN(NextNaNValue(last)), last |-> NextNaNValue(last)]

\* importValue: the byte of a host number and the NaN counter it leaves
ImportValue(value, last) ==
    LET integralValue == IntegralValue(value)
    IN  IF StrictEqualsZero(integralValue) THEN
            [byte |-> 0, last |-> last]
        ELSE IF Saturates(integralValue) THEN
            [byte |-> ImportInfinity(integralValue), last |-> last]
        ELSE IF GlobalIsNaN(integralValue) THEN
            AllocateNaN(last)
        ELSE IF LessThan(MathAbs(integralValue), 8) THEN
            [byte |-> ImportSubnormal(integralValue), last |-> last]
        ELSE
            [byte |-> ImportNormalized(integralValue), last |-> last]

(* ----------------------- instances and accessors ----------------------- *)

\* heap[t] is the private value of the instance named t
Instances == DOMAIN heap

sign(t) == SignOf(heap[t])

exponent(t) == ExponentOf(heap[t])

mantissa(t) == MantissaOf(heap[t])

\* TinyFloat.isNaN, as a truth value
IsNaN(t) == exponent(t) = 15 /\ mantissa(t) # 0

Loaded == DOMAIN COMMON_VALUES = {"ZERO", "EPSILON", "POSITIVE_INFINITY",
              "NEGATIVE_INFINITY", "MAX_VALUE", "MIN_VALUE",
              "MAX_SAFE_INTEGER", "MIN_SAFE_INTEGER"}

\* isFinite comparing with the positive infinity instance only
IsFiniteOneSided(t) ==
    /\ ~IsNaN(t)
    /\ t # COMMON_VALUES["POSITIVE_INFINITY"]

\* TinyFloat.isFinite: identity comparison with the two infinity instances
IsFinite(t) ==
    /\ ~IsNaN(t)
    /\ t # COMMON_VALUES["POSITIVE_INFINITY"]
    /\ t # COMMON_VALUES["NEGATIVE_INFINITY"]

IsInteger(t) == IsFinite(t)

\* valueOf (decode)
ValueOf(t) ==
    IF IsNaN(t) THEN NaN
    ELSE IF ~IsFinite(t) THEN Infinity(sign(t) # 0)
    ELSE IF exponent(t) = 0 THEN
        (IF sign(t) # 0 THEN Negate(Int2Num(mantissa(t))) ELSE Int2Num(mantissa(t)))
    ELSE
        LET realExponent == exponent(t) - EXPONENT_BIAS
            m == mantissa(t)
            value == Pow2Eighths(realExponent)
                       + (IF (m \div 4) % 2 > 0 THEN Pow2Eighths(realExponent - 1) ELSE 0)
                       + (IF (m \div 2) % 2 > 0 THEN Pow2Eighths(realExponent - 2) ELSE 0)
                       + (IF m % 2 > 0 THEN Pow2Eighths(realExponent - 3) ELSE 0)
        IN  FromEighths(value, sign(t) # 0)

\* (Math.abs(tinyFloat.valueOf()) - 7) <= 0
IsSafeInteger(t) ==
    LET a == MathAbs(ValueOf(t))
    IN  a.kind = "fin" /\ ~GreaterThan(a, 7)

(* ------------------------------ JS values ------------------------------ *)

\* A value handed to the constructor or to equals: its type t; for an object
\* the type p of what its valueOf() returns; the number n it carries; its truth
\* value b; for a TinyFloat the instance ref.  Strings are numeric literals or
\* text without a number in it, so that parseFloat and the conversion that ==
\* applies agree on them, and n is that number.
JSValue(t, p, n, b, ref) == [t |-> t, p |-> p, n |-> n, b |-> b, ref |-> ref]

JSNumber(n) == JSValue("number", "number", n, FALSE, 0)

JSBoolean(b) == JSValue("boolean", "boolean", NaN, b, 0)

JSNull == JSValue("null", "null", NaN, FALSE, 0)

JSUndefined == JSValue("undefined", "undefined", NaN, FALSE, 0)

JSString(parsed) == JSValue("string", "string", parsed, FALSE, 0)

JSObject(p, n, b) == JSValue("object", p, n, b, 0)

JSTinyFloat(t) == JSValue("tinyfloat", "number", NaN, FALSE, t)

\* the number the constructor's cascade hands to importValue
CoercePrimitive(t, value) ==
    IF t = "boolean" \/ t = "null" THEN (IF value.b THEN Int2Num(1) ELSE Int2Num(0))
    ELSE IF t = "undefined" THEN NaN
    ELSE value.n

Coerce(value) ==
    IF value.t = "tinyfloat" THEN ValueOf(value.ref)
    ELSE IF value.t = "object" THEN
        (IF value.p = "object" THEN NaN ELSE CoercePrimitive(value.p, value))
    ELSE CoercePrimitive(value.t, value)

(* ------------------------------ registry ------------------------------- *)

\* the name of a new instance: any name not in use will do, and this one does
\* not depend on the order in which the instances were made
NewInstance(hp, byte) ==
    1 + byte + 256 * Cardinality({t \in DOMAIN hp : hp[t] = byte})

\* the constructor's tail without its cache lookup
InternAlwaysNew(cache, hp, byte) ==
    [cache |-> (byte :> NewInstance(hp, byte)) @@ cache,
     heap  |-> (NewInstance(hp, byte) :> byte) @@ hp,
     ret   |-> NewInstance(hp, byte)]

\* the constructor's tail keeping NaN instances out of the cache
InternNoNaN(cache, hp, byte) ==
    IF ExponentOf(byte) = 15 /\ MantissaOf(byte) # 0 THEN
        [cache |-> cache,
         heap  |-> (NewInstance(hp, byte) :> byte) @@ hp,
         ret   |-> NewInstance(hp, byte)]
    ELSE IF byte \in DOMAIN cache THEN
        [cache |-> cache, heap |-> hp, ret |-> cache[byte]]
    ELSE
        [cache |-> (byte :> NewInstance(hp, byte)) @@ cache,
         heap  |-> (NewInstance(hp, byte) :> byte) @@ hp,
         ret   |-> NewInstance(hp, byte)]

\* the constructor's tail: return the cached instance of the byte when there is
\* one, else store the new instance under the byte
Intern(cache, hp, byte) ==
    IF byte \in DOMAIN cache THEN
        [cache |-> cache, heap |-> hp, ret |-> cache[byte]]
    ELSE
        [cache |-> (byte :> NewInstance(hp, byte)) @@ cache,
         heap  |-> (NewInstance(hp, byte) :> byte) @@ hp,
         ret   |-> NewInstance(hp, byte)]

\* x == value for a number x and a value of type t that is not an instance
LooseEqualsPrimitive(x, t, value) ==
    IF t = "number" \/ t = "string" THEN LooseEquals(x, value.n)
    ELSE IF t = "boolean" THEN LooseEquals(x, IF value.b THEN Int2Num(1) ELSE Int2Num(0))
    ELSE FALSE

\* x == value for a number x and a value that is not an instance
LooseEqualsValue(x, value) ==
    IF value.t = "object" THEN LooseEqualsPrimitive(x, value.p, value)
    ELSE LooseEqualsPrimitive(x, value.t, value)

\* equals without its NaN tests
EqualsByIdentity(this, otherValue) ==
    IF otherValue.t = "tinyfloat" THEN this = otherValue.ref
    ELSE LooseEqualsValue(ValueOf(this), otherValue)

\* equals
Equals(this, otherValue) ==
    IF otherValue.t = "tinyfloat" THEN
        ~IsNaN(otherValue.ref) /\ ~IsNaN(this) /\ this = otherValue.ref
    ELSE LooseEqualsValue(ValueOf(this), otherValue)

\* identicalTo
IdenticalTo(this, otherValue) ==
    IF otherValue.t # "tinyfloat" THEN FALSE ELSE Equals(this, otherValue)

(* ------------------------------- actions ------------------------------- *)

NoCall == [op |-> "none", value |-> JSUndefined, num |-> NaN, byte |-> 0,
           ret |-> JSUndefined]

NoProbe == [stage |-> 0, from |-> "none", src |-> NaN, byte |-> 0, inst |-> 0,
            out |-> NaN, back |-> 0]

Init ==
    /\ lastNaNValue = 0
    /\ INSTANCE_CACHE = <<>>
    /\ heap = <<>>
    /\ COMMON_VALUES = <<>>
    /\ call = NoCall
    /\ nanLog = <<>>
    /\ returned = <<>>
    /\ probe = NoProbe

\* the last NaNWindow entries of the log with one more
Remember(log, entry) ==
    LET all == Append(log, entry)
    IN  IF Len(all) > NaNWindow THEN Tail(all) ELSE all

\* new TinyFloat(value): everything but COMMON_VALUES and probe
DoConstruct(value) ==
    LET num == Coerce(value)
        iv  == ImportValue(num, lastNaNValue)
        in  == Intern(INSTANCE_CACHE, heap, iv.byte)
    IN  /\ lastNaNValue' = iv.last
        /\ INSTANCE_CACHE' = in.cache
        /\ heap' = in.heap
        /\ call' = [op |-> "new", value |-> value, num |-> num, byte |-> iv.byte,
                    ret |-> JSTinyFloat(in.ret)]
        /\ nanLog' = IF GlobalIsNaN(num)
                     THEN Remember(nanLog, [byte |-> iv.byte, inst |-> in.ret])
                     ELSE nanLog
        /\ returned' = IF iv.byte \in DOMAIN returned
                       THEN [returned EXCEPT ![iv.byte] = @ \cup {in.ret}]
                       ELSE (iv.byte :> {in.ret}) @@ returned

CommonNames == <<"ZERO", "EPSILON", "POSITIVE_INFINITY", "NEGATIVE_INFINITY",
                 "MAX_VALUE", "MIN_VALUE", "MAX_SAFE_INTEGER", "MIN_SAFE_INTEGER">>

CommonInputs == <<Int2Num(0), Int2Num(1), Infinity(FALSE), Infinity(TRUE),
                  Int2Num(122880), Int2Num(1), Int2Num(7), Int2Num(-7)>>

\* module load: the next property of the COMMON_VALUES literal
LoadCommonValues ==
    LET k == Cardinality(DOMAIN COMMON_VALUES) + 1
    IN  /\ k <= Len(CommonNames)
        /\ DoConstruct(JSNumber(CommonInputs[k]))
        /\ COMMON_VALUES' = (CommonNames[k] :> call'.ret.ref) @@ COMMON_VALUES
        /\ UNCHANGED probe

\* the numbers the registry is driven with
Numbers == {NaN, Int2Num(0), NegZero, Num("fin", FALSE, 0, TRUE),
            Num("fin", TRUE, 0, TRUE), Int2Num(5), Int2Num(-7),
            Int2Num(122880), Int2Num(122881), Int2Num(-999999)}

\* the values the registry is driven with
Values == {JSNumber(n) : n \in Numbers}
            \cup {JSUndefined, JSNull, JSBoolean(TRUE), JSString(NaN),
                  JSObject("object", NaN, FALSE), JSObject("number", Int2Num(5), FALSE)}

Construct(value) ==
    /\ Loaded
    /\ DoConstruct(value)
    /\ UNCHANGED <<COMMON_VALUES, probe>>

\* a call that reads: only its result is remembered
Read(op, ret) ==
    /\ Loaded
    /\ call' = [NoCall EXCEPT !.op = op, !.ret = ret]
    /\ UNCHANGED <<lastNaNValue, INSTANCE_CACHE, heap, COMMON_VALUES, nanLog,
                   returned, probe>>

CallValueOf(t) == Read("valueOf", JSNumber(ValueOf(t)))

CallIsNaN(t) == Read("isNaN", JSBoolean(IsNaN(t)))

CallIsFinite(t) == Read("isFinite", JSBoolean(IsFinite(t)))

CallIsInteger(t) == Read("isInteger", JSBoolean(IsInteger(t)))

CallIsSafeInteger(t) == Read("isSafeInteger", JSBoolean(IsSafeInteger(t)))

CallEquals(t, value) == Read("equals", JSBoolean(Equals(t, value)))

CallIdenticalTo(t, value) == Read("identicalTo", JSBoolean(IdenticalTo(t, value)))

\* what equals and identicalTo of t are called with: t itself, the zero
\* instance, the first NaN instance when there is one, two numbers and null
Others(t) == {JSTinyFloat(t), JSTinyFloat(COMMON_VALUES["ZERO"]),
              JSNumber(Int2Num(1)), JSNumber(NaN), JSNull}
                \cup {JSTinyFloat(INSTANCE_CACHE[b]) : b \in {121} \cap DOMAIN INSTANCE_CACHE}

Next ==
    \/ LoadCommonValues
    \/ \E value \in Values \cup {JSTinyFloat(t) : t \in Instances} : Construct(value)
    \/ \E t \in Instances : CallValueOf(t)
    \/ \E t \in Instances : CallIsNaN(t)
    \/ \E t \in Instances : CallIsFinite(t)
    \/ \E t \in Instances : CallIsInteger(t)
    \/ \E t \in Instances : CallIsSafeInteger(t)
    \/ \E t \in Instances : \E value \in Others(t) : CallEquals(t, value)
    \/ \E t \in Instances : \E value \in Others(t) : CallIdenticalTo(t, value)

Spec == Init /\ [][Next]_vars

(* ------------------------- probing the codec --------------------------- *)

\* the integer magnitudes the codec is probed with: every one up to DenseMax,
\* every mantissa step of every exponent with its two neighbours, and the
\* saturation threshold with what lies just above it
ProbeMagnitudes ==
    (0..DenseMax)
      \cup {k * Pow2(r - 3) + d : k \in 8..15, r \in 3..16, d \in {-1, 0, 1}}
      \cup (MaxMagnitude..(MaxMagnitude + OverShoot))
      \cup {999999}

ProbeNumbers ==
    {Num("fin", neg, mag, frac) : neg \in BOOLEAN, mag \in ProbeMagnitudes, frac \in BOOLEAN}
      \cup {NaN, Infinity(FALSE), Infinity(TRUE)}

\* a byte handed to the constructor's tail, as importValue would have
ProbeIntern(byte) ==
    /\ Loaded /\ probe.stage = 0
    /\ LET in == Intern(INSTANCE_CACHE, heap, byte)
       IN  /\ INSTANCE_CACHE' = in.cache
           /\ heap' = in.heap
           /\ probe' = [probe EXCEPT !.stage = 1, !.from = "byte", !.byte = byte,
                                     !.inst = in.ret]
    /\ UNCHANGED <<lastNaNValue, COMMON_VALUES, call, nanLog, returned>>

\* new TinyFloat(n)
ProbeConstruct(n) ==
    /\ Loaded /\ probe.stage = 0
    /\ DoConstruct(JSNumber(n))
    /\ probe' = [probe EXCEPT !.stage = 1, !.from = "number", !.src = n,
                              !.byte = call'.byte, !.inst = call'.ret.ref]
    /\ UNCHANGED COMMON_VALUES

\* valueOf() of the probed instance
ProbeValueOf ==
    /\ probe.stage = 1
    /\ probe' = [probe EXCEPT !.stage = 2, !.out = ValueOf(probe.inst)]
    /\ UNCHANGED <<lastNaNValue, INSTANCE_CACHE, heap, COMMON_VALUES, call, nanLog,
                   returned>>

\* new TinyFloat(x.valueOf())
ProbeReencode ==
    /\ probe.stage = 2
    /\ DoConstruct(JSNumber(probe.out))
    /\ probe' = [probe EXCEPT !.stage = 3, !.back = call'.byte]
    /\ UNCHANGED COMMON_VALUES

NextCodec ==
    \/ LoadCommonValues
    \/ \E byte \in Bytes : ProbeIntern(byte)
    \/ \E n \in ProbeNumbers : ProbeConstruct(n)
    \/ ProbeValueOf
    \/ ProbeReencode

SpecCodec == Init /\ [][NextCodec]_vars

(* ------------------------------- claims -------------------------------- *)

Range(f) == {f[x] : x \in DOMAIN f}

\* a probe that started from a byte and has been decoded and encoded again
RoundTripDone == probe.stage = 3 /\ probe.from = "byte" /\ probe.byte \notin NaNBytes

\* C1 as stated: every byte that is not a NaN code, 0x80 included, is encoded
\* back to itself from the number it decodes to.
C1_RoundTripEveryByte == RoundTripDone => probe.back = probe.byte

\* C1: every byte that is not a NaN code and is not 0x80 is encoded back to
\* itself from the number it decodes to; 0x80 decodes to -0, which is encoded
\* as 0x00.
C1_RoundTrip ==
    RoundTripDone =>
        /\ probe.byte # 128 => probe.back = probe.byte
        /\ probe.byte = 128 => probe.out = NegZero /\ probe.back = 0

C1_Witness == RoundTripDone /\ probe.byte = 135 /\ probe.back = 135

\* C2 as stated: the instance a NaN construction returns is in no cache slot,
\* and no two NaN constructions return the same instance.
C2_NaNNeverCached ==
    /\ \A i \in DOMAIN nanLog : nanLog[i].inst \notin Range(INSTANCE_CACHE)
    /\ \A i, j \in DOMAIN nanLog : i # j => nanLog[i].inst # nanLog[j].inst

\* C2: the instance a NaN construction returns is the one the cache holds under
\* its NaN byte; of 14 consecutive NaN constructions no two return the same
\* instance, and the 15th returns the instance of the 1st.
C2_NaNCached ==
    /\ \A i \in DOMAIN nanLog :
          /\ nanLog[i].byte \in DOMAIN INSTANCE_CACHE
          /\ INSTANCE_CACHE[nanLog[i].byte] = nanLog[i].inst
    /\ \A i, j \in DOMAIN nanLog :
          /\ (i < j /\ j - i < 14) => nanLog[i].inst # nanLog[j].inst
          /\ j - i = 14 => nanLog[i].inst = nanLog[j].inst

C2_Witness ==
    /\ Len(nanLog) >= 15
    /\ nanLog[1].inst = nanLog[15].inst
    /\ call.op = "new" /\ GlobalIsNaN(call.num)

\* C3: of 14 consecutive NaN constructions, whatever else is constructed in
\* between, the bytes are pairwise different NaN codes, and the 15th byte is the
\* 1st again.
C3_NaNDiversity ==
    /\ \A i \in DOMAIN nanLog : nanLog[i].byte \in NaNBytes
    /\ \A i, j \in DOMAIN nanLog :
          /\ (i < j /\ j - i < 14) => nanLog[i].byte # nanLog[j].byte
          /\ j - i = 14 => nanLog[i].byte = nanLog[j].byte

C3_Witness ==
    /\ Len(nanLog) >= 15
    /\ nanLog[15].byte = nanLog[1].byte
    /\ 5 \in DOMAIN INSTANCE_CACHE

\* C4: all constructions that import the same byte that is not a NaN code have
\* returned one and the same instance; the cache holds that instance under the
\* byte, and no other instance carries the byte.
C4_Interning ==
    /\ \A b \in DOMAIN returned \ NaNBytes :
          /\ Cardinality(returned[b]) = 1
          /\ b \in DOMAIN INSTANCE_CACHE
          /\ returned[b] = {INSTANCE_CACHE[b]}
    /\ \A b \in DOMAIN INSTANCE_CACHE : heap[INSTANCE_CACHE[b]] = b
    /\ \A t, u \in Instances : heap[t] = heap[u] => t = u

C4_Witness ==
    /\ Loaded
    /\ COMMON_VALUES["EPSILON"] = COMMON_VALUES["MIN_VALUE"]
    /\ call.op = "new" /\ call.byte = 5 /\ call.ret.ref = INSTANCE_CACHE[5]
    /\ nanLog # <<>>

\* C5 as stated: the cache never holds more than 242 entries and none of its
\* keys is a NaN code.
C5_NoNaNKeys ==
    /\ Cardinality(DOMAIN INSTANCE_CACHE) <= 242
    /\ DOMAIN INSTANCE_CACHE \cap NaNBytes = {}

\* an entry of the cache is neither removed nor replaced
CacheGrows ==
    \A b \in DOMAIN INSTANCE_CACHE :
        b \in DOMAIN INSTANCE_CACHE' /\ INSTANCE_CACHE'[b] = INSTANCE_CACHE[b]

\* C5: the cache starts empty, an entry once stored is never removed and never
\* replaced, and its keys are bytes other than 0x80, NaN codes among them: at
\* most 255 entries.
C5_Growth ==
    /\ INSTANCE_CACHE = <<>>
    /\ [][CacheGrows]_vars
    /\ [](/\ DOMAIN INSTANCE_CACHE \subseteq Bytes \ {128}
          /\ Cardinality(DOMAIN INSTANCE_CACHE) <= 255
          /\ \A i \in DOMAIN nanLog : nanLog[i].byte \in DOMAIN INSTANCE_CACHE)

C5_Witness ==
    /\ NaNBytes \subseteq DOMAIN INSTANCE_CACHE
    /\ 5 \in DOMAIN INSTANCE_CACHE
    /\ Cardinality(DOMAIN INSTANCE_CACHE) > 21

\* a probe that started from a number that is not NaN
Imported == probe.stage >= 1 /\ probe.from = "number" /\ probe.src.kind # "nan"

\* C6: a number whose magnitude, truncated, exceeds 122880 is imported as the
\* infinity byte of its sign, the byte of the infinity instance; any other
\* number that is not NaN is imported with an exponent field other than 15;
\* 122880 is imported as the byte of MAX_VALUE and decodes to 122880.
C6_Saturation ==
    Imported =>
        /\ (probe.src.kind = "inf" \/ probe.src.mag > 122880) =>
              /\ probe.byte = IF probe.src.neg THEN 248 ELSE 120
              /\ probe.inst = IF probe.src.neg THEN COMMON_VALUES["NEGATIVE_INFINITY"]
                                               ELSE COMMON_VALUES["POSITIVE_INFINITY"]
        /\ (probe.src.kind = "fin" /\ probe.src.mag <= 122880) =>
              ExponentOf(probe.byte) # 15
        /\ probe.src = Int2Num(122880) =>
              /\ probe.inst = COMMON_VALUES["MAX_VALUE"]
              /\ probe.stage >= 2 => probe.out = Int2Num(122880)

C6_Witness ==
    /\ Imported /\ probe.stage = 2
    /\ probe.src = Num("fin", TRUE, 122881, TRUE)
    /\ probe.byte = 248
    /\ probe.out = Infinity(TRUE)

\* C7: on two instances equals is true exactly when they carry the same byte
\* and it is not a NaN code, which is when they are one instance that is not
\* NaN; a NaN instance equals nothing; identicalTo agrees with equals on
\* instances and is false of every number.
C7_Equality ==
    Loaded =>
      \A a \in Instances :
        /\ \A b \in Instances :
              /\ Equals(a, JSTinyFloat(b)) <=> (heap[a] = heap[b] /\ heap[a] \notin NaNBytes)
              /\ Equals(a, JSTinyFloat(b)) <=> (a = b /\ ~IsNaN(a) /\ ~IsNaN(b))
              /\ IdenticalTo(a, JSTinyFloat(b)) <=> Equals(a, JSTinyFloat(b))
              /\ IsNaN(a) => ~Equals(a, JSTinyFloat(b)) /\ ~Equals(b, JSTinyFloat(a))
        /\ \A v \in Values :
              /\ ~IdenticalTo(a, v)
              /\ IsNaN(a) => ~Equals(a, v)

C7_Witness ==
    /\ call.op = "identicalTo" /\ call.ret.b
    /\ Len(nanLog) >= 15
    /\ \E a \in Instances : Equals(a, JSNumber(Int2Num(5))) /\ ~IdenticalTo(a, JSNumber(Int2Num(5)))

\* C8: isFinite is true exactly of the instances whose exponent field is not
\* 15, isInteger agrees with it, a finite instance decodes to an integer, and
\* isSafeInteger is true exactly of the instances that decode to a magnitude of
\* at most 7.
C8_Classification ==
    Loaded =>
      \A t \in Instances :
        /\ IsFinite(t) <=> exponent(t) # 15
        /\ IsInteger(t) <=> IsFinite(t)
        /\ IsFinite(t) => ValueOf(t).kind = "fin" /\ ~ValueOf(t).frac
        /\ IsSafeInteger(t) <=> (ValueOf(t).kind = "fin" /\ ValueOf(t).mag <= 7
                                   /\ ~(ValueOf(t).mag = 7 /\ ValueOf(t).frac))
        /\ exponent(t) = 15 => ~IsSafeInteger(t)

C8_Witness ==
    /\ probe.stage = 2 /\ probe.from = "number"
    /\ probe.src = Int2Num(-999999)
    /\ probe.inst = COMMON_VALUES["NEGATIVE_INFINITY"]
    /\ ~IsFinite(probe.inst) /\ ~IsSafeInteger(probe.inst)
    /\ IsSafeInteger(COMMON_VALUES["MIN_SAFE_INTEGER"])

\* a probe that started from an integer of the normalized range and was decoded
NormalizedDecoded ==
    /\ probe.stage >= 2 /\ probe.from = "number"
    /\ probe.src.kind = "fin" /\ ~probe.src.frac
    /\ probe.src.mag >= 8 /\ probe.src.mag <= 122880

\* C9: an integer n with 8 <= |n| <= 122880 and 2^r <= |n| < 2^(r+1) is
\* imported with the exponent field r - 2 and the sign bit of n, and decodes to
\* the sign of n and the magnitude m that is the multiple of 2^(r-3) with
\* m <= |n| < m + 2^(r-3): never rounded up, and n itself exactly when |n| is a
\* multiple of 2^(r-3).
C9_GreedyTruncation ==
    NormalizedDecoded =>
        \E r \in 3..16 :
            /\ Pow2(r) <= probe.src.mag /\ probe.src.mag < Pow2(r + 1)
            /\ ExponentOf(probe.byte) = r - 2
            /\ ExponentOf(probe.byte) \in 1..14
            /\ SignOf(probe.byte) = (IF probe.src.neg THEN 1 ELSE 0)
            /\ probe.out.kind = "fin" /\ ~probe.out.frac
            /\ probe.out.neg = probe.src.neg
            /\ probe.out.mag % Pow2(r - 3) = 0
            /\ probe.out.mag >= Pow2(r)
            /\ probe.out.mag <= probe.src.mag
            /\ probe.src.mag - probe.out.mag < Pow2(r - 3)
            /\ (probe.out = probe.src) <=> (probe.src.mag % Pow2(r - 3) = 0)

C9_Witness ==
    /\ NormalizedDecoded
    /\ probe.src = Int2Num(-122879)
    /\ probe.out = Int2Num(-114688)

\* the counter after one allocation step, read off the cycle 1..7, 9..15
AfterAllocation ==
    <<2, 3, 4, 5, 6, 7, 9, 9, 10, 11, 12, 13, 14, 15, 1>>

\* C10: a construction from NaN advances the counter by one allocation step,
\* also when it returns a cached instance; every other construction and every
\* reading call leaves the counter as it is; a construction that finds its byte
\* in the cache leaves the cache and the instances as they are.
C10_Frame ==
    [][/\ (call'.op = "new" /\ GlobalIsNaN(call'.num)) =>
              /\ lastNaNValue' = (IF lastNaNValue = 0 THEN 1 ELSE AfterAllocation[lastNaNValue])
              /\ lastNaNValue' # lastNaNValue
       /\ ~(call'.op = "new" /\ GlobalIsNaN(call'.num)) => lastNaNValue' = lastNaNValue
       /\ (call'.op = "new" /\ call'.byte \in DOMAIN INSTANCE_CACHE) =>
              /\ INSTANCE_CACHE' = INSTANCE_CACHE
              /\ heap' = heap
              /\ call'.ret.ref = INSTANCE_CACHE[call'.byte]
       /\ call'.op # "new" => INSTANCE_CACHE' = INSTANCE_CACHE /\ heap' = heap
      ]_vars

C10_Witness ==
    /\ call.op = "new" /\ GlobalIsNaN(call.num)
    /\ Len(nanLog) >= 15
    /\ Cardinality(Instances) = 22

====
